---- MODULE Spec2Model ----
(***************************************************************************)
(* The shortest-path engine of src/SPV.py (class ShortestPathVisualizer):  *)
(* dijkstra, bellman_ford, the backward walk over the predecessor links,   *)
(* run_algorithm, is_path_edge and the event handlers that change the      *)
(* selected start, end and algorithm.                                      *)
(*                                                                         *)
(* One call of dijkstra or bellman_ford is a sequence of steps (one loop   *)
(* iteration each).  The program is single-threaded, so no event is        *)
(* handled while a call is in progress (every handler is guarded by        *)
(* pc = "idle").                                                           *)
(*                                                                         *)
(* The module also holds the phase bookkeeping of src/GM.py (class         *)
(* GeytonModel: update_phase_status, add_feedback, complete_quality_gate), *)
(* a separate program with its own specification GMSpec.                   *)
(***************************************************************************)
EXTENDS Integers, Sequences, FiniteSets, TLC

-----------------------------------------------------------------------------
(* Values *)

\* float('inf'): larger than every finite distance the bounded graphs produce;
\* the code never adds to it (SPV.py:188 breaks, SPV.py:236 and :249 skip).
Inf == 1000000

\* Python's None as a predecessor or as the walk's cursor.
None == "None"

\* self.result = None.
NoneResult == [none |-> TRUE]

\* An identifier that names no node of any graph below.
Unknown == "Z"

-----------------------------------------------------------------------------
(* Graphs *)

\* The largest edge weight of the enumerated graphs (the smallest is -1).
MaxWeight == 1

\* Steps the backward walk is followed beyond the number of nodes: a walk
\* that has collected more entries than there are nodes has entered a cycle
\* of predecessor links and never ends; the model follows it this far.
WalkSlack == 1

Letters == <<"A", "B", "C", "D", "E">>

LetterIndex(n) == CHOOSE i \in 1..Len(Letters) : Letters[i] = n

FamilyNodes == {"A", "B", "C"}

\* The enumerated graphs have at most as many edges as nodes.
MaxEdges == Cardinality(FamilyNodes)

Weights == -1..MaxWeight

EdgeRecs == [from_node : FamilyNodes, to_node : FamilyNodes, weight : Weights]

Edge(f, t, w) == [from_node |-> f, to_node |-> t, weight |-> w]

\* The endpoints of an edge sequence in reading order: from1, to1, from2, ...
Endpoints(es) ==
    [p \in 1..(2 * Len(es)) |->
        IF p % 2 = 1 THEN es[(p + 1) \div 2].from_node ELSE es[p \div 2].to_node]

\* One edge sequence per isomorphism class: the nodes are first mentioned in
\* the order A, B, C.  The code reads node ids only through equality and
\* hashing, and every start, every end and every set iteration order is
\* enumerated, so renaming the nodes of a graph changes no behaviour.
FirstMentionOrdered(es) ==
    LET ep == Endpoints(es)
    IN  \A p \in 1..Len(ep) :
           \/ LetterIndex(ep[p]) = 1
           \/ \E q \in 1..(p - 1) : LetterIndex(ep[q]) >= LetterIndex(ep[p]) - 1

EdgeSeqs == UNION {[1..n -> EdgeRecs] : n \in 0..MaxEdges}

FamilyGraphs ==
    {[nodes |-> FamilyNodes, edges |-> es] : es \in {s \in EdgeSeqs : FirstMentionOrdered(s)}}

\* The graph the constructor builds.
BuiltInGraph ==
    [nodes |-> {"A", "B", "C", "D", "E"},
     edges |-> << Edge("A", "B", 4), Edge("A", "E", 2), Edge("B", "C", 3),
                  Edge("B", "D", 1), Edge("C", "D", 2), Edge("D", "E", 3),
                  Edge("E", "B", 7) >>]

\* Graphs in which an edge names an endpoint that is no node.  Edge.__init__
\* takes any two Node objects, and nothing in the class compares them with
\* self.nodes.
DanglingGraphs ==
    { [nodes |-> FamilyNodes, edges |-> << Edge("A", "B", 1), Edge("B", Unknown, 1), Edge("B", "C", 1) >>],
      [nodes |-> FamilyNodes, edges |-> << Edge("A", "C", 1), Edge("B", Unknown, 1) >>],
      [nodes |-> FamilyNodes, edges |-> << Edge(Unknown, "A", -1), Edge("A", "C", 1), Edge("C", Unknown, -1) >>],
      [nodes |-> FamilyNodes, edges |-> << Edge("C", Unknown, 1), Edge("B", "C", 1), Edge("A", "B", 1) >> ] }

\* Two nodes and the single edge X -> Y of weight 5.
TwoNodeGraph ==
    [nodes |-> {"X", "Y"}, edges |-> << Edge("X", "Y", 5) >>]

\* Three nodes with the cycle Q -> R -> Q of total weight -2.
NegativeCycleGraph ==
    [nodes |-> {"P", "Q", "R"},
     edges |-> << Edge("P", "Q", 1), Edge("Q", "R", -3), Edge("R", "Q", 1) >>]

Graphs ==
    FamilyGraphs \cup {BuiltInGraph, TwoNodeGraph, NegativeCycleGraph} \cup DanglingGraphs

-----------------------------------------------------------------------------
(* State *)

VARIABLES
    nodes,          \* self.nodes (the ids)
    edges,          \* self.edges
    start_node,     \* self.start_node
    end_node,       \* self.end_node
    algorithm,      \* self.algorithm
    result,         \* self.result
    pc,             \* where the call in progress stands, "idle" between calls
    fn,             \* the function called: "dijkstra" or "bellman_ford"
    via_run,        \* TRUE when run_algorithm made the call
    start,          \* parameter start
    end,            \* parameter end
    frame,          \* the call's locals: distances, previous, unvisited, visit_order, updated
    pass,           \* bellman_ford: index of the relaxation pass (the loop's _)
    k,              \* bellman_ford: position in self.edges within the pass
    path,           \* the walk's path
    current,        \* the walk's current
    ret,            \* the value returned, or what was raised
    phases,         \* GeytonModel: self.phases
    gm_calls,       \* GeytonModel: the number of calls made so far
    gm_now,         \* GeytonModel: what datetime.now() returned when last read
    gm_last         \* GeytonModel: the last call, its outcome and whether it changed a phase

graphVars == <<nodes, edges>>
uiVars == <<start_node, end_node, algorithm, result>>
callVars == <<fn, via_run, start, end>>
bfVars == <<pass, k>>
walkVars == <<path, current>>
spvVars == <<nodes, edges, start_node, end_node, algorithm, result, pc, fn, via_run,
             start, end, frame, pass, k, path, current, ret>>
gmVars == <<phases, gm_calls, gm_now, gm_last>>
vars == <<spvVars, gmVars>>

\* The values the locals hold when no call is in progress.
NoFrame == [none |-> TRUE]
NoRet == [none |-> TRUE]

-----------------------------------------------------------------------------
(* dijkstra and bellman_ford: the locals and the relaxation of one edge *)

\* distances, previous, unvisited, visit_order as first assigned.  The
\* assignment distances[start] = 0 adds the key when start is not a node.
\* raised says that a subscript has raised KeyError.
InitLocals(s) ==
    [distances   |-> [n \in nodes \cup {s} |-> IF n = s THEN 0 ELSE Inf],
     previous    |-> [n \in nodes |-> None],
     unvisited   |-> nodes,
     visit_order |-> <<>>,
     updated     |-> FALSE,
     brk         |-> FALSE,
     raised      |-> FALSE]

\* Mutant of Improves: <= in place of <.
Improves_NonStrict(L, e) == L.distances[e.from_node] + e.weight <= L.distances[e.to_node]

\* if alt < distances[v]: distances[v] = alt; previous[v] = u
Improves(L, e) == L.distances[e.from_node] + e.weight < L.distances[e.to_node]

\* Mutant of Relax: distances[v] = distances[u] in place of distances[v] = alt.
Relax_NoWeight(L, e) ==
    IF Improves(L, e)
    THEN [L EXCEPT !.distances[e.to_node] = L.distances[e.from_node],
                   !.previous = [n \in DOMAIN L.previous \cup {e.to_node} |->
                                    IF n = e.to_node THEN e.from_node ELSE L.previous[n]]]
    ELSE L

\* Mutant of Relax: the assignment previous[v] = u is missing.
Relax_NoPrevious(L, e) ==
    IF Improves(L, e)
    THEN [L EXCEPT !.distances[e.to_node] = L.distances[e.from_node] + e.weight]
    ELSE L

\* The assignment previous[v] = u adds the key v when previous lacks it (v is
\* then the start of the call, an identifier that is no node).
Relax(L, e) ==
    IF Improves(L, e)
    THEN [L EXCEPT !.distances[e.to_node] = L.distances[e.from_node] + e.weight,
                   !.previous = [n \in DOMAIN L.previous \cup {e.to_node} |->
                                    IF n = e.to_node THEN e.from_node ELSE L.previous[n]]]
    ELSE L

\* distances[n] raises KeyError.
Missing(L, n) == n \notin DOMAIN L.distances

KeyErrorRaised(L) == [L EXCEPT !.raised = TRUE]

InSeq(x, s) == \E i \in 1..Len(s) : s[i] = x

-----------------------------------------------------------------------------
(* dijkstra *)

\* Mutant of MinNodes: max in place of min.
MinNodes_Max(L) ==
    {n \in L.unvisited : \A m \in L.unvisited : L.distances[n] >= L.distances[m]}

\* The nodes min(unvisited, key=...) can return: min returns the first
\* minimal element in the set's iteration order, and that order is decided
\* by the string hashes, which differ from one interpreter start to the next.
MinNodes(L) ==
    {n \in L.unvisited : \A m \in L.unvisited : L.distances[n] <= L.distances[m]}

\* Mutant of RelaxNeighbors: the loop is left after the first neighbor.
RelaxNeighbors_FirstOnly(L, cur, j) ==
    LET js == {i \in j..Len(edges) : edges[i].from_node = cur}
    IN  IF js = {} THEN L
        ELSE LET e == edges[CHOOSE i \in js : \A x \in js : i <= x]
             IN  IF Missing(L, e.to_node) THEN KeyErrorRaised(L) ELSE Relax(L, e)

\* for neighbor, weight in graph[current]: the edges leaving cur, in the
\* order of self.edges, from position j on.  distances[neighbor] raises
\* KeyError for a neighbor that is neither a node nor the start.
RECURSIVE RelaxNeighbors(_, _, _)
RelaxNeighbors(L, cur, j) ==
    IF j > Len(edges) THEN L
    ELSE IF edges[j].from_node # cur THEN RelaxNeighbors(L, cur, j + 1)
    ELSE IF Missing(L, edges[j].to_node) THEN KeyErrorRaised(L)
    ELSE RelaxNeighbors(Relax(L, edges[j]), cur, j + 1)

\* Mutant of DijkstraIteration: the test "current == end" is missing.
DijkstraIteration_NoEndBreak(L, cur, s, e) ==
    IF L.distances[cur] = Inf
    THEN [L EXCEPT !.brk = TRUE]
    ELSE RelaxNeighbors([L EXCEPT !.unvisited = @ \ {cur},
                                  !.visit_order = IF cur # s THEN Append(@, cur) ELSE @],
                        cur, 1)

\* Mutant of DijkstraIteration: unvisited.remove(current) comes after the
\* test "current == end".
DijkstraIteration_RemoveAfterEndTest(L, cur, s, e) ==
    IF L.distances[cur] = Inf
    THEN [L EXCEPT !.brk = TRUE]
    ELSE LET L1 == [L EXCEPT !.visit_order = IF cur # s THEN Append(@, cur) ELSE @]
         IN  IF cur = e
             THEN [L1 EXCEPT !.brk = TRUE]
             ELSE RelaxNeighbors([L1 EXCEPT !.unvisited = @ \ {cur}], cur, 1)

\* Mutant of DijkstraIteration: the break on an infinite minimum is missing.
DijkstraIteration_NoInfBreak(L, cur, s, e) ==
    LET L1 == [L EXCEPT !.unvisited = @ \ {cur},
                        !.visit_order = IF cur # s THEN Append(@, cur) ELSE @]
    IN  IF cur = e
        THEN [L1 EXCEPT !.brk = TRUE]
        ELSE RelaxNeighbors(L1, cur, 1)

\* One iteration of the while loop with cur selected; brk says it left the loop.
DijkstraIteration(L, cur, s, e) ==
    IF L.distances[cur] = Inf
    THEN [L EXCEPT !.brk = TRUE]
    ELSE LET L1 == [L EXCEPT !.unvisited = @ \ {cur},
                             !.visit_order = IF cur # s THEN Append(@, cur) ELSE @]
         IN  IF cur = e
             THEN [L1 EXCEPT !.brk = TRUE]
             ELSE RelaxNeighbors(L1, cur, 1)

-----------------------------------------------------------------------------
(* bellman_ford *)

\* The reads of bellman_ford's test on one edge raise KeyError:
\* distances[from] always, distances[to] when distances[from] is finite.
EdgeReadFails(L, e) ==
    \/ Missing(L, e.from_node)
    \/ L.distances[e.from_node] # Inf /\ Missing(L, e.to_node)

\* The test of both loops of bellman_ford holds for the edge.
EdgeRelaxable(L, e) ==
    /\ ~EdgeReadFails(L, e)
    /\ L.distances[e.from_node] # Inf
    /\ Improves(L, e)

\* Mutant of BellmanEdge: the test "not in visit_order" is missing.
BellmanEdge_AlwaysAppend(L, e, s) ==
    IF EdgeReadFails(L, e) THEN KeyErrorRaised(L)
    ELSE IF L.distances[e.from_node] # Inf /\ Improves(L, e)
    THEN LET L1 == Relax(L, e)
         IN  [L1 EXCEPT !.updated = TRUE,
                        !.visit_order = IF e.to_node # s THEN Append(@, e.to_node) ELSE @]
    ELSE L

\* The body of "for edge in self.edges" for one edge.
BellmanEdge(L, e, s) ==
    IF EdgeReadFails(L, e) THEN KeyErrorRaised(L)
    ELSE IF L.distances[e.from_node] # Inf /\ Improves(L, e)
    THEN LET L1 == Relax(L, e)
         IN  [L1 EXCEPT !.updated = TRUE,
                        !.visit_order =
                            IF ~InSeq(e.to_node, @) /\ e.to_node # s
                            THEN Append(@, e.to_node) ELSE @]
    ELSE L

\* The position at which the negative-cycle scan stops: the first edge
\* whose test holds or raises; 0 when the scan reaches the end of self.edges.
ScanStop(L) ==
    LET hits == {j \in 1..Len(edges) :
                    EdgeReadFails(L, edges[j]) \/ EdgeRelaxable(L, edges[j])}
    IN  IF hits = {} THEN 0 ELSE CHOOSE j \in hits : \A x \in hits : j <= x

\* The negative-cycle scan raises KeyError.
ScanRaises(L) == ScanStop(L) # 0 /\ EdgeReadFails(L, edges[ScanStop(L)])

\* Mutant of StillRelaxable: the scan looks at the first edge only.
StillRelaxable_FirstEdgeOnly(L) ==
    /\ Len(edges) >= 1
    /\ EdgeRelaxable(L, edges[1])

\* The negative-cycle scan: some edge can still be relaxed.
StillRelaxable(L) == ScanStop(L) # 0 /\ EdgeRelaxable(L, edges[ScanStop(L)])

NegativeCycleRecord == [error |-> "Negative cycle detected", algorithm |-> "Bellman-Ford"]

\* Mutant of PassCount: one pass fewer.
PassCount_OneLess == Cardinality(nodes) - 2

\* range(len(self.nodes) - 1)
PassCount == Cardinality(nodes) - 1

-----------------------------------------------------------------------------
(* Path reconstruction *)

\* Mutant of WalkStep: append in place of insert(0, ...).
WalkStep_Append(L, w) ==
    [path |-> Append(w.path, w.current), current |-> L.previous[w.current]]

\* path.insert(0, current); current = previous[current]
WalkStep(L, w) ==
    [path |-> <<w.current>> \o w.path, current |-> L.previous[w.current]]

\* Mutant of ResultRecord: the path is returned also when the distance is infinite.
ResultRecord_AlwaysPath(L, p, e, name) ==
    [distance    |-> L.distances[e],
     path        |-> p,
     visit_order |-> L.visit_order,
     algorithm   |-> name]

\* The record both functions return after the walk.
ResultRecord(L, p, e, name) ==
    [distance    |-> L.distances[e],
     path        |-> IF L.distances[e] # Inf THEN p ELSE <<>>,
     visit_order |-> L.visit_order,
     algorithm   |-> name]

AlgorithmName(f) == IF f = "dijkstra" THEN "Dijkstra" ELSE "Bellman-Ford"

KeyError == [raised |-> "KeyError"]

-----------------------------------------------------------------------------
(* Whole calls, composed of the steps above *)

\* A call that never returns: the walk turns in a cycle of predecessor links.
NoReturn == [diverges |-> TRUE]

\* The while loop of the reconstruction, run to its end.
RECURSIVE WalkFrom(_, _)
WalkFrom(L, w) ==
    IF w.current = None THEN w
    ELSE IF w.current \notin DOMAIN L.previous THEN KeyError
    ELSE IF Len(w.path) >= Cardinality(nodes) + WalkSlack THEN NoReturn
    ELSE WalkFrom(L, WalkStep(L, w))

\* The reconstruction and the return statement.
Reconstruct(L, e, name) ==
    LET w == WalkFrom(L, [path |-> <<>>, current |-> e])
    IN  IF "path" \in DOMAIN w THEN ResultRecord(L, w.path, e, name) ELSE w

\* for edge in self.edges: one pass from position j on.
RECURSIVE BellmanEdges(_, _, _)
BellmanEdges(L, j, s) ==
    IF j > Len(edges) \/ L.raised THEN L
    ELSE BellmanEdges(BellmanEdge(L, edges[j], s), j + 1, s)

\* for _ in range(len(self.nodes) - 1), from pass i on.
RECURSIVE BellmanPasses(_, _, _)
BellmanPasses(L, i, s) ==
    IF i >= PassCount THEN L
    ELSE LET L1 == BellmanEdges([L EXCEPT !.updated = FALSE], 1, s)
         IN  IF L1.raised \/ ~L1.updated THEN L1 ELSE BellmanPasses(L1, i + 1, s)

\* What bellman_ford(s, e) returns or raises.
BellmanFord(s, e) ==
    LET L == BellmanPasses(InitLocals(s), 0, s)
    IN  IF L.raised \/ ScanRaises(L) THEN KeyError
        ELSE IF StillRelaxable(L) THEN NegativeCycleRecord
        ELSE Reconstruct(L, e, "Bellman-Ford")

\* What dijkstra(s, e) can return or raise from the loop state L on: one
\* outcome for each iteration order of the set unvisited.
RECURSIVE DijkstraFrom(_, _, _)
DijkstraFrom(L, s, e) ==
    IF L.unvisited = {} THEN {Reconstruct(L, e, "Dijkstra")}
    ELSE UNION { LET L1 == DijkstraIteration(L, cur, s, e)
                 IN  IF L1.raised THEN {KeyError}
                     ELSE IF L1.brk THEN {Reconstruct([L1 EXCEPT !.brk = FALSE], e, "Dijkstra")}
                     ELSE DijkstraFrom(L1, s, e)
                 : cur \in MinNodes(L) }

Dijkstra(s, e) == DijkstraFrom(InitLocals(s), s, e)

-----------------------------------------------------------------------------
(* is_path_edge *)

\* Mutant of PathEdgeLoop: range(len(path) - 2).
RECURSIVE PathEdgeLoop_Short(_, _, _)
PathEdgeLoop_Short(p, e, i) ==
    IF i > Len(p) - 2 THEN FALSE
    ELSE IF p[i] = e.from_node /\ p[i + 1] = e.to_node THEN TRUE
    ELSE PathEdgeLoop_Short(p, e, i + 1)

\* for i in range(len(path) - 1), from position i on (positions count from 1
\* here, from 0 in the code), returning at the first match.
RECURSIVE PathEdgeLoop(_, _, _)
PathEdgeLoop(p, e, i) ==
    IF i > Len(p) - 1 THEN FALSE
    ELSE IF p[i] = e.from_node /\ p[i + 1] = e.to_node THEN TRUE
    ELSE PathEdgeLoop(p, e, i + 1)

\* Mutant of is_path_edge: the test "'path' not in self.result" is missing,
\* and a record without a path counts as holding every edge.
is_path_edge_NoPathTest(e) ==
    IF result = NoneResult THEN FALSE
    ELSE IF "path" \notin DOMAIN result THEN TRUE
    ELSE PathEdgeLoop(result.path, e, 1)

\* "not self.result" holds for None only: a returned record is never empty.
is_path_edge(e) ==
    IF result = NoneResult \/ "path" \notin DOMAIN result THEN FALSE
    ELSE PathEdgeLoop(result.path, e, 1)

-----------------------------------------------------------------------------
(* GeytonModel (src/GM.py): the phases and the three calls that change them *)

\* The number of calls followed.
MaxCalls == 3

\* The phases _initialize_default_phases creates.
PhaseNames == {"Communication", "Planning", "Modeling", "Construction", "Deployment"}

\* The value of start_date, end_date and review_date while they are None;
\* datetime.now() is a positive number.
NoDate == 0

\* quality_gate = None (the Deployment phase is given no gate).
NoGate == [none |-> TRUE]

GateName(p) ==
    CASE p = "Communication" -> "Requirements Review"
      [] p = "Planning"      -> "Design Review"
      [] p = "Modeling"      -> "Architecture Review"
      [] p = "Construction"  -> "Testing Review"

\* QualityGate(name=..., criteria=[...]) with the defaults of the dataclass.
NewGate(p) ==
    [name |-> GateName(p), passed |-> FALSE, reviewer |-> None,
     review_date |-> NoDate, comments |-> ""]

\* Phase(...) with the defaults of the dataclass, and the gate
\* _initialize_quality_gates assigns.
NewPhase(p) ==
    [name                  |-> p,
     status                |-> "NOT_STARTED",
     start_date            |-> NoDate,
     end_date              |-> NoDate,
     completion_percentage |-> 0,
     feedback_received     |-> <<>>,
     quality_gate          |-> IF p = "Deployment" THEN NoGate ELSE NewGate(p)]

PhaseStatus == {"NOT_STARTED", "IN_PROGRESS", "REVIEW_PENDING", "COMPLETED", "REQUIRES_FEEDBACK"}

\* The phase names the calls are made with: two phases (one with a gate, one
\* without) and a name that is no phase.
CallNames == {"Communication", "Deployment", "Maintenance"}

\* The values of the argument completion that are tried.
Completions == {-1, 50, 101}

Min(a, b) == IF a < b THEN a ELSE b

Max(a, b) == IF a > b THEN a ELSE b

\* The readings of datetime.now(): naive local time, which repeats, moves on,
\* and goes back when daylight saving ends or the system clock is set back.
\* One reading more than there are calls, so that the constructor's reading
\* and the readings of the calls can stand in every order.
Times == 1..(MaxCalls + 1)

\* The constructor's reading in the shortest-path program, which makes no
\* GeytonModel and never reads it.
FirstReading == 1

\* GeytonModel.__init__; created_date is the reading gm_now.
GMConstructed ==
    /\ phases = [p \in PhaseNames |-> NewPhase(p)]
    /\ gm_calls = 0
    /\ gm_now \in Times
    /\ gm_last = [op |-> "none", names |-> {}, outcome |-> "none", changed |-> FALSE]

\* The wall clock at a call: any reading, whatever the readings before it
\* (the same datetime, a later one, or an earlier one).
Tick == gm_now' \in Times

\* The end of a call: what it was, how it ended, whether a phase changed.
Called(op, names, outcome) ==
    /\ gm_calls' = gm_calls + 1
    /\ gm_last' = [op |-> op, names |-> names, outcome |-> outcome,
                   changed |-> phases' # phases]

\* datetime.now() within the call in progress.
Now == gm_now'

\* The body of update_phase_status on the phase found.
UpdatedPhase(ph, status, completion) ==
    LET p1 == [ph EXCEPT !.status = status,
                         !.completion_percentage = Max(0, Min(100, completion))]
    IN  IF status = "IN_PROGRESS" /\ p1.start_date = NoDate
        THEN [p1 EXCEPT !.start_date = Now]
        ELSE IF status = "COMPLETED"
        THEN [p1 EXCEPT !.end_date = Now, !.completion_percentage = 100]
        ELSE p1

update_phase_status(phase_name, status, completion) ==
    IF phase_name \notin DOMAIN phases
    THEN /\ UNCHANGED phases
         /\ Called("update_phase_status", {phase_name}, "ValueError")
    ELSE /\ phases' = [phases EXCEPT ![phase_name] = UpdatedPhase(@, status, completion)]
         /\ Called("update_phase_status", {phase_name}, "returned")

\* FeedbackItem(from_phase, to_phase, issue, action, priority)
FeedbackItem(from_phase, to_phase, issue, action, priority) ==
    [from_phase |-> from_phase, to_phase |-> to_phase, issue_description |-> issue,
     recommended_action |-> action, priority |-> priority,
     created_date |-> Now, resolved |-> FALSE]

add_feedback(from_phase, to_phase, issue, action, priority) ==
    IF to_phase \notin DOMAIN phases
    THEN /\ UNCHANGED phases
         /\ Called("add_feedback", {from_phase, to_phase}, "ValueError")
    ELSE /\ phases' =
              [phases EXCEPT ![to_phase] =
                  [@ EXCEPT !.feedback_received =
                                Append(@, FeedbackItem(from_phase, to_phase, issue, action, priority)),
                            !.status = IF @ = "COMPLETED" THEN "REQUIRES_FEEDBACK" ELSE @]]
         /\ Called("add_feedback", {from_phase, to_phase}, "returned")

complete_quality_gate(phase_name, reviewer, passed, comments) ==
    IF phase_name \notin DOMAIN phases
    THEN /\ UNCHANGED phases
         /\ Called("complete_quality_gate", {phase_name}, "ValueError")
    ELSE /\ phases' =
              IF phases[phase_name].quality_gate = NoGate THEN phases
              ELSE [phases EXCEPT ![phase_name].quality_gate =
                       [@ EXCEPT !.passed = passed, !.reviewer = reviewer,
                                 !.review_date = Now, !.comments = comments]]
         /\ Called("complete_quality_gate", {phase_name}, "returned")

UpdatePhaseStatus ==
    /\ gm_calls < MaxCalls
    /\ Tick
    /\ \E n \in CallNames, st \in PhaseStatus, c \in Completions : update_phase_status(n, st, c)
    /\ UNCHANGED spvVars

AddFeedback ==
    /\ gm_calls < MaxCalls
    /\ Tick
    /\ \E f \in CallNames, t \in CallNames :
          add_feedback(f, t, "Design flaw discovered", "Revise the design", "HIGH")
    /\ UNCHANGED spvVars

CompleteQualityGate ==
    /\ gm_calls < MaxCalls
    /\ Tick
    /\ \E n \in CallNames, passed \in BOOLEAN : complete_quality_gate(n, "Lead BA", passed, "")
    /\ UNCHANGED spvVars

GMNext ==
    \/ UpdatePhaseStatus
    \/ AddFeedback
    \/ CompleteQualityGate

-----------------------------------------------------------------------------
(* Initial state: the constructor, for each enumerated graph *)

\* ShortestPathVisualizer.__init__, with g for the literal graph.
Constructed(g) ==
    /\ nodes = g.nodes
    /\ edges = g.edges
    /\ start_node = "A"
    /\ end_node = "C"
    /\ algorithm = "dijkstra"
    /\ result = NoneResult
    /\ pc = "idle"
    /\ fn = "none"
    /\ via_run = FALSE
    /\ start = None
    /\ end = None
    /\ frame = NoFrame
    /\ pass = 0
    /\ k = 0
    /\ path = <<>>
    /\ current = None
    /\ ret = NoRet

GMInit ==
    /\ Constructed(BuiltInGraph)
    /\ GMConstructed

GMSpec == GMInit /\ [][GMNext]_vars

Init ==
    /\ \E g \in Graphs : nodes = g.nodes /\ edges = g.edges
    /\ GMConstructed
    /\ gm_now = FirstReading
    /\ start_node = "A"
    /\ end_node = "C"
    /\ algorithm = "dijkstra"
    /\ result = NoneResult
    /\ pc = "idle"
    /\ fn = "none"
    /\ via_run = FALSE
    /\ start = None
    /\ end = None
    /\ frame = NoFrame
    /\ pass = 0
    /\ k = 0
    /\ path = <<>>
    /\ current = None
    /\ ret = NoRet

Fresh ==
    /\ start_node = "A" /\ end_node = "C" /\ algorithm = "dijkstra"
    /\ result = NoneResult

-----------------------------------------------------------------------------
(* Calls *)

\* Mutant of Enter: the key of distances[start] = 0 is added to self.nodes.
Enter_AddsStartNode(f, s, e, byRun) ==
    /\ pc = "idle"
    /\ fn' = f
    /\ via_run' = byRun
    /\ start' = s
    /\ end' = e
    /\ nodes' = nodes \cup {s}
    /\ frame' = InitLocals(s)
    /\ pass' = 0
    /\ k' = 1
    /\ path' = <<>>
    /\ current' = None
    /\ ret' = NoRet
    /\ pc' = IF f = "dijkstra" THEN "dijkstra_loop"
             ELSE IF PassCount > 0 THEN "bf_relax" ELSE "bf_check"
    /\ UNCHANGED <<edges, uiVars>>
    /\ UNCHANGED gmVars

\* The entry of dijkstra or bellman_ford: the locals are built anew.
Enter(f, s, e, byRun) ==
    /\ pc = "idle"
    /\ fn' = f
    /\ via_run' = byRun
    /\ start' = s
    /\ end' = e
    /\ frame' = InitLocals(s)
    /\ pass' = 0
    /\ k' = 1
    /\ path' = <<>>
    /\ current' = None
    /\ ret' = NoRet
    /\ pc' = IF f = "dijkstra" THEN "dijkstra_loop"
             ELSE IF PassCount > 0 THEN "bf_relax" ELSE "bf_check"
    /\ UNCHANGED <<graphVars, uiVars>>
    /\ UNCHANGED gmVars

\* run_algorithm, up to the first loop of the function it calls.
RunAlgorithm ==
    Enter(IF algorithm = "dijkstra" THEN "dijkstra" ELSE "bellman_ford",
          start_node, end_node, TRUE)

\* A caller that passes an identifier that is not a node (the handlers never
\* do), on a newly constructed visualizer.
DirectCall ==
    /\ Fresh
    /\ \E f \in {"dijkstra", "bellman_ford"}, s, e \in nodes \cup {Unknown} :
          /\ s = Unknown \/ e = Unknown
          /\ Enter(f, s, e, FALSE)

\* Leaving the main loop: path = []; current = end.
BeginWalk ==
    /\ path' = <<>>
    /\ current' = end
    /\ pc' = "reconstruct"

\* A subscript raised KeyError: the call is left.
RaiseKeyError ==
    /\ pc' = "raised"
    /\ ret' = KeyError

\* while unvisited: one iteration, or the loop's end.
DijkstraLoop ==
    /\ pc = "dijkstra_loop"
    /\ IF frame.unvisited = {}
       THEN /\ BeginWalk
            /\ UNCHANGED <<frame, ret>>
       ELSE \E cur \in MinNodes(frame) :
              LET L == DijkstraIteration(frame, cur, start, end)
              IN  /\ frame' = [L EXCEPT !.brk = FALSE]
                  /\ IF L.raised THEN RaiseKeyError /\ UNCHANGED walkVars
                     ELSE IF L.brk THEN BeginWalk /\ UNCHANGED ret
                     ELSE pc' = "dijkstra_loop" /\ UNCHANGED <<walkVars, ret>>
    /\ UNCHANGED <<graphVars, uiVars, callVars, bfVars>>
    /\ UNCHANGED gmVars

\* for edge in self.edges: the edge at position k of the current pass.
BellmanRelax ==
    /\ pc = "bf_relax"
    /\ k <= Len(edges)
    /\ frame' = BellmanEdge(frame, edges[k], start)
    /\ k' = k + 1
    /\ IF frame'.raised THEN RaiseKeyError ELSE UNCHANGED <<pc, ret>>
    /\ UNCHANGED <<graphVars, uiVars, callVars, pass, walkVars>>
    /\ UNCHANGED gmVars

\* Mutant of BellmanEndPass: "if not updated: break" is missing.
BellmanEndPass_NoBreak ==
    /\ pc = "bf_relax"
    /\ k > Len(edges)
    /\ IF pass + 1 < PassCount
       THEN /\ pass' = pass + 1
            /\ k' = 1
            /\ frame' = [frame EXCEPT !.updated = FALSE]
            /\ UNCHANGED pc
       ELSE /\ pc' = "bf_check"
            /\ UNCHANGED <<pass, k, frame>>
    /\ UNCHANGED <<graphVars, uiVars, callVars, walkVars, ret>>
    /\ UNCHANGED gmVars

\* The end of a pass: "if not updated: break", else the next pass, if any.
BellmanEndPass ==
    /\ pc = "bf_relax"
    /\ k > Len(edges)
    /\ IF frame.updated /\ pass + 1 < PassCount
       THEN /\ pass' = pass + 1
            /\ k' = 1
            /\ frame' = [frame EXCEPT !.updated = FALSE]
            /\ UNCHANGED pc
       ELSE /\ pc' = "bf_check"
            /\ UNCHANGED <<pass, k, frame>>
    /\ UNCHANGED <<graphVars, uiVars, callVars, walkVars, ret>>
    /\ UNCHANGED gmVars

\* Mutant of BellmanNegativeCycle: the return inside the scan is missing, and
\* the call goes on to the reconstruction.
BellmanNegativeCycle_NoReturn ==
    /\ pc = "bf_check"
    /\ StillRelaxable(frame)
    /\ BeginWalk
    /\ UNCHANGED <<graphVars, uiVars, callVars, frame, bfVars, ret>>
    /\ UNCHANGED gmVars

\* The negative-cycle scan finds an edge and returns the error record.
BellmanNegativeCycle ==
    /\ pc = "bf_check"
    /\ StillRelaxable(frame)
    /\ ret' = NegativeCycleRecord
    /\ pc' = "returned"
    /\ UNCHANGED <<graphVars, uiVars, callVars, frame, bfVars, walkVars>>
    /\ UNCHANGED gmVars

\* The negative-cycle scan reads the distance of an identifier that is no
\* key of distances.
BellmanScanRaises ==
    /\ pc = "bf_check"
    /\ ScanRaises(frame)
    /\ frame' = KeyErrorRaised(frame)
    /\ RaiseKeyError
    /\ UNCHANGED <<graphVars, uiVars, callVars, bfVars, walkVars>>
    /\ UNCHANGED gmVars

\* The negative-cycle scan finds nothing.
BellmanNoCycle ==
    /\ pc = "bf_check"
    /\ ~StillRelaxable(frame)
    /\ ~ScanRaises(frame)
    /\ BeginWalk
    /\ UNCHANGED <<graphVars, uiVars, callVars, frame, bfVars, ret>>
    /\ UNCHANGED gmVars

\* while current is not None: one iteration.  previous[current] raises
\* KeyError when current is not a node.
Walk ==
    /\ pc = "reconstruct"
    /\ current # None
    /\ Len(path) < Cardinality(nodes) + WalkSlack
    /\ IF current \in DOMAIN frame.previous
       THEN LET w == WalkStep(frame, [path |-> path, current |-> current])
            IN  /\ path' = w.path
                /\ current' = w.current
                /\ UNCHANGED <<pc, ret>>
       ELSE /\ RaiseKeyError
            /\ path' = <<current>> \o path
            /\ UNCHANGED current
    /\ UNCHANGED <<graphVars, uiVars, callVars, frame, bfVars>>
    /\ UNCHANGED gmVars

\* The walk's end and the return statement.
ReturnResult ==
    /\ pc = "reconstruct"
    /\ current = None
    /\ ret' = ResultRecord(frame, path, end, AlgorithmName(fn))
    /\ pc' = "returned"
    /\ UNCHANGED <<graphVars, uiVars, callVars, frame, bfVars, walkVars>>
    /\ UNCHANGED gmVars

\* Back in the caller: run_algorithm stores the value in self.result.
Resume ==
    /\ pc \in {"returned", "raised"}
    /\ result' = IF via_run /\ pc = "returned" THEN ret ELSE result
    /\ pc' = "idle"
    /\ fn' = "none"
    /\ via_run' = FALSE
    /\ start' = None
    /\ end' = None
    /\ frame' = NoFrame
    /\ pass' = 0
    /\ k' = 0
    /\ path' = <<>>
    /\ current' = None
    /\ ret' = NoRet
    /\ UNCHANGED <<graphVars, start_node, end_node, algorithm>>
    /\ UNCHANGED gmVars

-----------------------------------------------------------------------------
(* handle_events *)

callLocals == <<pc, fn, via_run, start, end, frame, pass, k, path, current, ret>>

ClearButton ==
    /\ pc = "idle"
    /\ result' = NoneResult
    /\ UNCHANGED <<graphVars, start_node, end_node, algorithm, callLocals>>
    /\ UNCHANGED gmVars

DijkstraButton ==
    /\ pc = "idle"
    /\ algorithm' = "dijkstra"
    /\ result' = NoneResult
    /\ UNCHANGED <<graphVars, start_node, end_node, callLocals>>
    /\ UNCHANGED gmVars

BellmanButton ==
    /\ pc = "idle"
    /\ algorithm' = "bellman_ford"
    /\ result' = NoneResult
    /\ UNCHANGED <<graphVars, start_node, end_node, callLocals>>
    /\ UNCHANGED gmVars

\* Mutant of LeftClick: "self.result = None" is missing.
LeftClick_KeepsResult ==
    /\ pc = "idle"
    /\ \E n \in nodes : start_node' = n
    /\ UNCHANGED <<graphVars, end_node, algorithm, result, callLocals>>
    /\ UNCHANGED gmVars

LeftClick ==
    /\ pc = "idle"
    /\ \E n \in nodes : start_node' = n
    /\ result' = NoneResult
    /\ UNCHANGED <<graphVars, end_node, algorithm, callLocals>>
    /\ UNCHANGED gmVars

RightClick ==
    /\ pc = "idle"
    /\ \E n \in nodes : end_node' = n
    /\ result' = NoneResult
    /\ UNCHANGED <<graphVars, start_node, algorithm, callLocals>>
    /\ UNCHANGED gmVars

-----------------------------------------------------------------------------

Next ==
    \/ RunAlgorithm
    \/ DirectCall
    \/ DijkstraLoop
    \/ BellmanRelax
    \/ BellmanEndPass
    \/ BellmanNegativeCycle
    \/ BellmanScanRaises
    \/ BellmanNoCycle
    \/ Walk
    \/ ReturnResult
    \/ Resume
    \/ ClearButton
    \/ DijkstraButton
    \/ BellmanButton
    \/ LeftClick
    \/ RightClick

Spec == Init /\ [][Next]_vars

-----------------------------------------------------------------------------
(* Graph notions the properties are stated with *)

NonNegative == \A j \in 1..Len(edges) : edges[j].weight >= 0

HasEdge(u, v) == \E j \in 1..Len(edges) : edges[j].from_node = u /\ edges[j].to_node = v

\* The smallest weight of an edge from u to v.
MinWeight(u, v) ==
    LET ws == {edges[j].weight : j \in {i \in 1..Len(edges) :
                                         edges[i].from_node = u /\ edges[i].to_node = v}}
    IN  CHOOSE w \in ws : \A x \in ws : w <= x

RECURSIVE ReachClosure(_)
ReachClosure(S) ==
    LET T == S \cup {edges[j].to_node : j \in {i \in 1..Len(edges) : edges[i].from_node \in S}}
    IN  IF T = S THEN S ELSE ReachClosure(T)

\* The nodes a directed path leads to from s (s itself included).
ReachableFrom(s) == ReachClosure({s})

\* The sequences of distinct nodes.
SimpleSeqs ==
    UNION {{p \in [1..n -> nodes] : \A i, j \in 1..n : i # j => p[i] # p[j]}
           : n \in 1..Cardinality(nodes)}

IsPath(p) == \A i \in 1..(Len(p) - 1) : HasEdge(p[i], p[i + 1])

RECURSIVE PathWeight(_)
PathWeight(p) ==
    IF Len(p) <= 1 THEN 0
    ELSE MinWeight(p[1], p[2]) + PathWeight(Tail(p))

\* The simple paths from s to e.
SimplePaths(s, e) ==
    {p \in SimpleSeqs : p[1] = s /\ p[Len(p)] = e /\ IsPath(p)}

\* The simple paths from s to e of least total weight.
ShortestPaths(s, e) ==
    {p \in SimplePaths(s, e) : \A q \in SimplePaths(s, e) : PathWeight(p) <= PathWeight(q)}

\* A cycle of negative total weight through nodes reachable from s.
NegativeCycleReachable(s) ==
    \E p \in SimpleSeqs :
        /\ p[1] \in ReachableFrom(s)
        /\ IsPath(p)
        /\ HasEdge(p[Len(p)], p[1])
        /\ PathWeight(p) + MinWeight(p[Len(p)], p[1]) < 0

NoRepeat(s) == \A i, j \in 1..Len(s) : i # j => s[i] # s[j]

\* Every edge joins two nodes of the graph.
WellFormed ==
    \A j \in 1..Len(edges) : edges[j].from_node \in nodes /\ edges[j].to_node \in nodes

ValidCall == start \in nodes /\ end \in nodes /\ WellFormed

\* The stepwise call and the composed call agree on the outcome.
StepsAgree ==
    pc \in {"returned", "raised"} =>
        IF fn = "dijkstra" THEN ret \in Dijkstra(start, end)
        ELSE ret = BellmanFord(start, end)

-----------------------------------------------------------------------------
(* Properties *)

\* C1: on a graph whose weights are all non-negative, for start and end in
\* the graph, dijkstra and bellman_ford return the same distance (the same
\* finite number, or both infinite): whatever dijkstra returns, under any
\* iteration order of its set, carries the distance bellman_ford returns.
C1_SameDistance ==
    (pc = "returned" /\ fn = "dijkstra" /\ NonNegative /\ ValidCall) =>
        LET b == BellmanFord(start, end)
        IN  /\ "distance" \in DOMAIN ret
            /\ "distance" \in DOMAIN b
            /\ ret.distance = b.distance

\* A dijkstra call on a non-negative graph that returned a finite distance
\* reached over two edges.
C1_Witness ==
    /\ pc = "returned" /\ fn = "dijkstra" /\ NonNegative /\ ValidCall
    /\ ret.distance = 2
    /\ Len(ret.path) = 3

\* C2 as claimed: on a non-negative graph, for start and end in the graph,
\* dijkstra and bellman_ford return the same path, also when several paths
\* of equal least weight lead from start to end.
C2_SamePath ==
    (pc = "returned" /\ fn = "dijkstra" /\ NonNegative /\ ValidCall) =>
        ret.path = BellmanFord(start, end).path

\* C2 as amended: on a non-negative graph, for start and end in the graph,
\* dijkstra and bellman_ford return the same path whenever exactly one
\* simple path from start to end has the least total weight (and both return
\* the empty path when there is none).
C2_SamePathWhenUnique ==
    (pc = "returned" /\ fn = "dijkstra" /\ NonNegative /\ ValidCall
        /\ Cardinality(ShortestPaths(start, end)) <= 1) =>
        ret.path = BellmanFord(start, end).path

\* A dijkstra call that returned the only shortest path, three nodes long,
\* while a second, heavier path exists.
C2_Witness ==
    /\ pc = "returned" /\ fn = "dijkstra" /\ NonNegative /\ ValidCall
    /\ Cardinality(ShortestPaths(start, end)) = 1
    /\ Cardinality(SimplePaths(start, end)) = 2
    /\ Len(ret.path) = 3

\* C3: on a graph whose edges join nodes of the graph, a call of
\* bellman_ford ends with the negative-cycle record exactly when a cycle of
\* negative total weight is reachable from start, whatever the end.
C3_NegativeCycleIff ==
    (pc \in {"returned", "raised"} /\ fn = "bellman_ford" /\ WellFormed) =>
        ((ret = NegativeCycleRecord) <=> NegativeCycleReachable(start))

\* bellman_ford returned the negative-cycle record for a cycle that does not
\* pass through start.
C3_Witness ==
    /\ pc = "returned" /\ fn = "bellman_ford" /\ WellFormed
    /\ ret = NegativeCycleRecord
    /\ ~HasEdge(start, start)
    /\ \A j \in 1..Len(edges) : edges[j].to_node # start

\* C4: a non-empty path returned by dijkstra (non-negative weights) or by
\* bellman_ford (no negative-cycle record) begins with start and ends with
\* end; for start = end the path is <<start>>.
C4_PathEndpoints ==
    (pc = "returned" /\ "path" \in DOMAIN ret /\ (fn = "dijkstra" => NonNegative)) =>
        /\ ret.path # <<>> => ret.path[1] = start /\ ret.path[Len(ret.path)] = end
        /\ start = end => ret.path = <<start>>

\* A returned path of three nodes on a graph with a negative weight.
C4_Witness ==
    /\ pc = "returned" /\ fn = "bellman_ford" /\ ~NonNegative
    /\ "path" \in DOMAIN ret
    /\ Len(ret.path) = 3

\* C5: visit_order never holds start and never holds a node twice, while a
\* call builds it and in the record returned.
C5_VisitOrder ==
    /\ "visit_order" \in DOMAIN frame =>
          NoRepeat(frame.visit_order) /\ ~InSeq(start, frame.visit_order)
    /\ "visit_order" \in DOMAIN ret =>
          NoRepeat(ret.visit_order) /\ ~InSeq(start, ret.visit_order)

\* bellman_ford improves a node a second time: the node is already in
\* visit_order and its distance has just become smaller again.
C5_Witness ==
    /\ pc = "bf_relax" /\ pass = 1 /\ k > 1
    /\ Len(frame.visit_order) = 2
    /\ frame.updated
    /\ frame.distances[edges[k - 1].to_node] < 0

\* C6 as claimed: a second run of the same function on the same graph with
\* the same start and end yields the distance, path and visit_order of the
\* first, also when unvisited nodes tie for the least tentative distance.
\* The first run is the call that has just returned; the second run is any
\* run the code can make on these inputs.
C6_SameOutcomeTwice ==
    pc = "returned" =>
        IF fn = "dijkstra"
        THEN \A second \in Dijkstra(start, end) : second = ret
        ELSE BellmanFord(start, end) = ret

\* C7 as claimed: a call whose start or end is not a node of the graph ends
\* in a failure, never in a returned record.
C7_UnknownNodeFails ==
    (pc \in {"returned", "raised"} /\ WellFormed /\ ~ValidCall) => pc = "raised"

\* C8: for dijkstra on non-negative weights and for bellman_ford without a
\* negative-cycle record, the record has a finite distance and a non-empty
\* path exactly when end is reachable from start, and an infinite distance
\* and an empty path exactly when it is not.
C8_FoundIffReachable ==
    (pc = "returned" /\ "distance" \in DOMAIN ret /\ (fn = "dijkstra" => NonNegative)) =>
        LET reach == end \in ReachableFrom(start)
        IN  /\ (ret.distance # Inf /\ ret.path # <<>>) <=> reach
            /\ (ret.distance = Inf /\ ret.path = <<>>) <=> ~reach

\* dijkstra returned the unreachable record although an edge leads from end
\* back to start.
C8_Witness ==
    /\ pc = "returned" /\ fn = "dijkstra" /\ NonNegative /\ ValidCall
    /\ ret.distance = Inf /\ ret.path = <<>>
    /\ HasEdge(end, start)
    /\ Len(edges) = 3

\* The backward walk has a next step to take only while it has collected
\* fewer entries than there are nodes.  previous does not change during the
\* walk, so a walk that inserts a node a second time repeats for ever.
WalkAdvances ==
    (pc = "reconstruct" /\ current # None) => Len(path) < Cardinality(nodes)

\* A number that every step of a call makes smaller.
Rank ==
    CASE pc = "dijkstra_loop" -> Cardinality(nodes) + 2 + Cardinality(frame.unvisited)
      [] pc = "bf_relax" ->
            Cardinality(nodes) + 3 + (PassCount - pass - 1) * (Len(edges) + 1)
                + (Len(edges) + 1 - k)
      [] pc = "bf_check" -> Cardinality(nodes) + 2
      [] pc = "reconstruct" ->
            IF current = None THEN 1 ELSE 1 + Cardinality(nodes) - Len(path)
      [] OTHER -> 0

InCall == pc \in {"dijkstra_loop", "bf_relax", "bf_check", "reconstruct"}

\* C9 as claimed: every query, on signed weights, with start and end in the
\* graph, finishes its main loop and its backward walk.
C9_EveryQueryTerminates ==
    ValidCall => WalkAdvances

\* C9 as amended: every bellman_ford query on signed weights, and every
\* dijkstra query on non-negative weights, with start and end in the graph,
\* finishes its main loop and its backward walk and returns a record: each
\* step of the call lowers a natural number, the walk never meets a node a
\* second time, and nothing is raised.
C9_Terminates ==
    /\ []((ValidCall /\ (fn = "dijkstra" => NonNegative)) =>
            WalkAdvances /\ pc # "raised")
    /\ [][(InCall /\ ValidCall /\ (fn = "dijkstra" => NonNegative)) =>
            (Rank' < Rank /\ Rank' >= 0)]_vars

\* bellman_ford, on a graph with a negative weight, has walked back a path
\* of three nodes to its end.
C9_Witness ==
    /\ pc = "reconstruct" /\ fn = "bellman_ford" /\ ~NonNegative /\ ValidCall
    /\ current = None
    /\ Len(path) = 3

\* The pair (u, v) stands at two consecutive positions of p.
Consecutive(p, u, v) == \E i \in 1..(Len(p) - 1) : SubSeq(p, i, i + 1) = <<u, v>>

\* C10: for a stored result with a non-empty path, is_path_edge(edge) is
\* true exactly when edge.from_node.id and edge.to_node.id stand at two
\* consecutive positions of the path, in that order.
C10_PathEdgeIffConsecutive ==
    ("path" \in DOMAIN result /\ result.path # <<>>) =>
        \A u, v \in nodes :
            is_path_edge(Edge(u, v, 0)) <=> Consecutive(result.path, u, v)

\* A path of three nodes is stored, the graph has the edge from its last
\* node back to its middle node, and is_path_edge is false for that edge and
\* true for the edge from the middle node to the last.
C10_Witness ==
    /\ "path" \in DOMAIN result
    /\ Len(result.path) = 3
    /\ HasEdge(result.path[3], result.path[2])
    /\ ~is_path_edge(Edge(result.path[3], result.path[2], 0))
    /\ is_path_edge(Edge(result.path[2], result.path[3], 0))

\* The identifiers an Edge object can carry: the nodes and one that is no node.
EdgeIds == nodes \cup {Unknown}

\* C11: is_path_edge(edge) is false for every edge when the stored result is
\* an unreachable result (empty path), a negative-cycle result (no path
\* field), or when no result is stored.
C11_NoPathNoEdge ==
    (\/ result = NoneResult
     \/ "path" \notin DOMAIN result
     \/ ("path" \in DOMAIN result /\ result.path = <<>>)) =>
        \A u, v \in EdgeIds : ~is_path_edge(Edge(u, v, 0))

\* The negative-cycle record is stored as the result, on a graph with an
\* edge from the selected start to the selected end.
C11_Witness ==
    /\ pc = "idle"
    /\ result = NegativeCycleRecord
    /\ HasEdge(start_node, end_node)

ResultFields == {"path", "distance", "visit_order"}

\* C12: when bellman_ford detects a negative cycle it returns before the
\* reconstruction: the walk has not been started, and the record returned
\* (and the record stored as the result) carries no path, no distance and no
\* visit_order; a record with the error never carries one of them.
C12_NegativeCycleAlone ==
    /\ (pc = "returned" /\ fn = "bellman_ford" /\ StillRelaxable(frame)) =>
          /\ path = <<>> /\ current = None
          /\ "error" \in DOMAIN ret
          /\ DOMAIN ret \cap ResultFields = {}
    /\ "error" \in DOMAIN ret => DOMAIN ret \cap ResultFields = {}
    /\ "error" \in DOMAIN result => DOMAIN result \cap ResultFields = {}

\* bellman_ford returned the negative-cycle record while its locals hold a
\* finite distance for the end and a predecessor for it.
C12_Witness ==
    /\ pc = "returned" /\ fn = "bellman_ford" /\ ValidCall
    /\ ret = NegativeCycleRecord
    /\ frame.distances[end] # Inf
    /\ frame.previous[end] # None
    /\ start # end

\* C13: dijkstra and bellman_ford leave the graph unchanged: no step of a
\* call (and no handler) changes the node set or the edge sequence with its
\* weights, whatever the call ends with.  The distances, predecessors and
\* visit order are local to the call: every call begins with the locals as
\* first assigned, whatever earlier calls left, and no step inside a call
\* touches the stored result.
C13_GraphUnchanged ==
    [][ /\ nodes' = nodes
        /\ edges' = edges
        /\ (pc = "idle" /\ pc' # "idle") =>
              (frame' = InitLocals(start') /\ path' = <<>> /\ current' = None)
        /\ (pc # "idle" /\ pc' # "idle") => result' = result
      ]_vars

\* dijkstra has returned from a call whose start is no node: its local
\* distances hold a key that the node set lacks.
C13_Witness ==
    /\ pc = "returned" /\ fn = "dijkstra"
    /\ start \notin nodes
    /\ start \in DOMAIN frame.distances
    /\ "distance" \in DOMAIN ret

\* C14 as claimed: the construction of a graph in which an edge names an
\* endpoint that is no node fails, so that every query, while it runs and
\* when it has returned or raised, is on a graph whose edges join nodes of
\* the graph.
C14_NoQueryOnDanglingEdge ==
    pc # "idle" => WellFormed

OnGraph(g) == nodes = g.nodes /\ edges = g.edges

\* C15: on the built-in graph (nodes A,B,C,D,E; edges A->B 4, A->E 2,
\* B->C 3, B->D 1, C->D 2, D->E 3, E->B 7) dijkstra('A','C') and
\* bellman_ford('A','C') both return distance 7 and path [A, B, C].
C15_BuiltInAToC ==
    (OnGraph(BuiltInGraph) /\ pc \in {"returned", "raised"} /\ start = "A" /\ end = "C") =>
        /\ pc = "returned"
        /\ ret.distance = 7
        /\ ret.path = <<"A", "B", "C">>

\* bellman_ford('A','C') has returned on the built-in graph and its record
\* is stored as the result.
C15_Witness ==
    /\ OnGraph(BuiltInGraph)
    /\ pc = "idle" /\ algorithm = "bellman_ford" /\ start_node = "A" /\ end_node = "C"
    /\ "distance" \in DOMAIN result
    /\ result.algorithm = "Bellman-Ford"

\* C16: on the two-node graph with the single edge X->Y of weight 5,
\* dijkstra('Y','X') returns the unreachable result: infinite distance,
\* empty path and empty visit_order.
C16_TwoNodeUnreachable ==
    (OnGraph(TwoNodeGraph) /\ pc \in {"returned", "raised"} /\ fn = "dijkstra"
        /\ start = "Y" /\ end = "X") =>
        /\ pc = "returned"
        /\ ret.distance = Inf
        /\ ret.path = <<>>
        /\ ret.visit_order = <<>>

\* dijkstra('Y','X') has returned on the two-node graph.
C16_Witness ==
    /\ OnGraph(TwoNodeGraph)
    /\ pc = "returned" /\ fn = "dijkstra" /\ start = "Y" /\ end = "X"
    /\ "X" \in frame.unvisited

\* C17: on the graph with nodes P,Q,R and edges P->Q 1, Q->R -3, R->Q 1,
\* bellman_ford('P','R') returns the negative-cycle result: the call never
\* enters the reconstruction, raises nothing, and what it returns is the
\* negative-cycle record.
C17_NegativeCycleOnPQR ==
    (OnGraph(NegativeCycleGraph) /\ fn = "bellman_ford" /\ start = "P" /\ end = "R") =>
        /\ pc \notin {"reconstruct", "raised"}
        /\ pc = "returned" => ret = NegativeCycleRecord

\* bellman_ford('P','R') has returned on that graph, with the distance of R
\* lowered twice around the cycle.
C17_Witness ==
    /\ OnGraph(NegativeCycleGraph)
    /\ pc = "returned" /\ fn = "bellman_ford" /\ start = "P" /\ end = "R"
    /\ frame.distances["R"] = -4

\* The minimum over unvisited is infinite: the iteration breaks at once.
InfiniteMinimum == \A n \in frame.unvisited : frame.distances[n] = Inf

\* C18: in dijkstra's main loop every iteration that does not break on an
\* infinite minimum removes exactly one node from unvisited and adds none;
\* unvisited is never more than the node set, so the loop ends after at most
\* |nodes| iterations, and it ends at once when the node removed is the end.
C18_LoopShrinks ==
    /\ [](pc = "dijkstra_loop" => frame.unvisited \subseteq nodes)
    /\ [][ pc = "dijkstra_loop" =>
             IF frame.unvisited = {} THEN pc' = "reconstruct"
             ELSE IF InfiniteMinimum
                  THEN pc' = "reconstruct" /\ frame'.unvisited = frame.unvisited
                  ELSE /\ frame'.unvisited \subseteq frame.unvisited
                       /\ Cardinality(frame'.unvisited) = Cardinality(frame.unvisited) - 1
                       /\ end \in (frame.unvisited \ frame'.unvisited) => pc' = "reconstruct"
          ]_vars

\* dijkstra has left its loop on the five-node graph after five iterations:
\* the end was the last node selected.
C18_Witness ==
    /\ pc = "reconstruct" /\ fn = "dijkstra"
    /\ Cardinality(nodes) = 5
    /\ frame.unvisited = {}
    /\ Len(frame.visit_order) = 4

\* No edge whose source has a finite distance can be relaxed (and every
\* distance such an edge needs is there).
Converged ==
    \A j \in 1..Len(edges) :
        LET d == frame.distances
            e == edges[j]
        IN  (e.from_node \in DOMAIN d /\ d[e.from_node] # Inf) =>
                /\ e.to_node \in DOMAIN d
                /\ ~(d[e.from_node] + e.weight < d[e.to_node])

\* The pass loop of bellman_ford has stopped after a pass that improved nothing.
StoppedOnQuietPass == pc = "bf_check" /\ PassCount > 0 /\ ~frame.updated

\* C19: bellman_ford performs at most |nodes| - 1 relaxation passes, and a
\* pass in which no distance was improved is the last pass; when the pass
\* loop stops because of such a pass, no edge (u, v, w) with finite
\* distance[u] has distance[u] + w < distance[v], and the negative-cycle scan
\* that follows reports nothing: the call goes on to the reconstruction.
C19_PassesAndEarlyStop ==
    /\ [](pc = "bf_relax" => pass < PassCount)
    /\ [](StoppedOnQuietPass => Converged)
    /\ [][ /\ (pc = "bf_relax" /\ k > Len(edges) /\ ~frame.updated) => pc' = "bf_check"
           /\ (pc = "bf_relax" /\ pc' = "bf_relax") => pass' \in {pass, pass + 1}
           /\ StoppedOnQuietPass => pc' = "reconstruct"
         ]_vars

\* On the five-node graph the second of four possible passes improved
\* nothing and the pass loop has stopped.
C19_Witness ==
    /\ StoppedOnQuietPass
    /\ PassCount = 4
    /\ pass = 1
    /\ ValidCall
    /\ frame.distances[end] = 7

\* The least total weight of a simple path from s to n; Inf when there is none.
ShortestDistance(s, n) ==
    LET ws == {PathWeight(p) : p \in SimplePaths(s, n)}
    IN  IF ws = {} THEN Inf ELSE CHOOSE w \in ws : \A x \in ws : w <= x

\* The nodes dijkstra has removed from unvisited.
Settled == nodes \ frame.unvisited

\* C20: in dijkstra with non-negative weights, once a node has been removed
\* from unvisited its tentative distance and its predecessor are changed by
\* no later iteration, and that distance is the node's shortest distance
\* from start.
C20_SettledIsFinal ==
    /\ []((fn = "dijkstra" /\ NonNegative /\ pc \in {"dijkstra_loop", "reconstruct"}) =>
            \A n \in Settled : frame.distances[n] = ShortestDistance(start, n))
    /\ [][ (pc = "dijkstra_loop" /\ NonNegative) =>
             \A n \in Settled :
                /\ frame'.distances[n] = frame.distances[n]
                /\ frame'.previous[n] = frame.previous[n]
          ]_vars

\* dijkstra, on a graph with an edge of weight 0 into a node settled before,
\* has settled two nodes of equal distance.
C20_Witness ==
    /\ pc = "dijkstra_loop" /\ NonNegative /\ ValidCall
    /\ Cardinality(Settled) = 2
    /\ \E j \in 1..Len(edges) :
          /\ edges[j].weight = 0
          /\ edges[j].from_node \in Settled /\ edges[j].to_node \in Settled
          /\ edges[j].from_node # edges[j].to_node
          /\ frame.distances[edges[j].from_node] = frame.distances[edges[j].to_node]
          /\ frame.previous[edges[j].to_node] # edges[j].from_node

\* C21: dijkstra stops as soon as the end node is selected: the iteration
\* that removes end from unvisited relaxes no edge and leaves the loop, so no
\* iteration begins with end settled; whenever the record returned has a
\* finite distance and end differs from start, end is the last element of
\* visit_order, and when end equals start, visit_order is empty.
C21_EarlyExit ==
    /\ []((pc = "dijkstra_loop" /\ end \in nodes) => end \in frame.unvisited)
    /\ [][ (pc = "dijkstra_loop" /\ end \in frame.unvisited /\ end \notin frame'.unvisited) =>
             /\ pc' = "reconstruct"
             /\ frame'.distances = frame.distances
             /\ frame'.previous = frame.previous
          ]_vars
    /\ []((pc = "returned" /\ fn = "dijkstra" /\ ret.distance # Inf) =>
            IF end # start
            THEN /\ ret.visit_order # <<>>
                 /\ ret.visit_order[Len(ret.visit_order)] = end
            ELSE ret.visit_order = <<>>)

\* dijkstra has returned a finite distance for an end that is not the start
\* while a node with a finite tentative distance is still unvisited.
C21_Witness ==
    /\ pc = "returned" /\ fn = "dijkstra" /\ ValidCall
    /\ ret.distance # Inf
    /\ start # end
    /\ \E n \in frame.unvisited : frame.distances[n] # Inf

\* The total weights of the directed walks of at most m edges from s to n
\* (a walk may pass a node and an edge more than once).
RECURSIVE WalkWeights(_, _, _)
WalkWeights(s, n, m) ==
    IF m = 0 THEN (IF n = s THEN {0} ELSE {})
    ELSE WalkWeights(s, n, m - 1) \cup
         UNION { {x + edges[j].weight : x \in WalkWeights(s, edges[j].from_node, m - 1)}
                 : j \in {i \in 1..Len(edges) : edges[i].to_node = n} }

\* The least total weight of a directed walk from s to n of at most one edge
\* more than there are nodes; Inf when there is none.
LeastWalkWeight(s, n) ==
    LET ws == WalkWeights(s, n, Cardinality(nodes) + 1)
    IN  IF ws = {} THEN Inf ELSE CHOOSE w \in ws : \A x \in ws : w <= x

\* C22: when the record has a finite distance, that distance is the minimum
\* total weight over the directed paths from start to end (simple or not):
\* for dijkstra on non-negative weights, and for bellman_ford on signed
\* weights whenever it returns a record with a distance, which it does when
\* no negative cycle is reachable from start.
C22_DistanceIsMinimum ==
    (pc = "returned" /\ ValidCall /\ "distance" \in DOMAIN ret /\ ret.distance # Inf
        /\ (fn = "dijkstra" => NonNegative)) =>
        /\ ret.distance = LeastWalkWeight(start, end)
        /\ ret.distance = ShortestDistance(start, end)

\* bellman_ford has returned a negative distance reached over two edges
\* although a single edge leads from start to end.
C22_Witness ==
    /\ pc = "returned" /\ fn = "bellman_ford" /\ ValidCall
    /\ "distance" \in DOMAIN ret
    /\ ret.distance < 0
    /\ Len(ret.path) = 3
    /\ HasEdge(start, end)

\* C23: every non-empty path returned by dijkstra (non-negative weights) or
\* by bellman_ford (no negative-cycle record) is a path of the graph: it
\* repeats no node, each consecutive pair is joined by an edge in that
\* direction, and the sum over the pairs of the smallest weight of an edge
\* joining them is the distance returned.
C23_PathIsReal ==
    (pc = "returned" /\ ValidCall /\ "path" \in DOMAIN ret /\ ret.path # <<>>
        /\ (fn = "dijkstra" => NonNegative)) =>
        /\ NoRepeat(ret.path)
        /\ IsPath(ret.path)
        /\ PathWeight(ret.path) = ret.distance

\* dijkstra has returned a path of three nodes on a graph with two parallel
\* edges of different weights between two nodes of the path.
C23_Witness ==
    /\ pc = "returned" /\ fn = "dijkstra" /\ ValidCall /\ NonNegative
    /\ Len(ret.path) = 3
    /\ \E i, j \in 1..Len(edges) :
          /\ edges[i].from_node = edges[j].from_node
          /\ edges[i].to_node = edges[j].to_node
          /\ edges[i].weight < edges[j].weight
          /\ Consecutive(ret.path, edges[i].from_node, edges[i].to_node)

\* C24: after any sequence of events (run, clear, select Dijkstra, select
\* Bellman-Ford, set start by left click, set end by right click) a stored
\* result that is not None is a result of the currently selected algorithm
\* for the currently selected start and end, and every step that changes the
\* algorithm, the start or the end leaves the result None.
C24_ResultIsCurrent ==
    /\ [](result # NoneResult =>
            IF algorithm = "dijkstra"
            THEN result \in Dijkstra(start_node, end_node)
            ELSE result = BellmanFord(start_node, end_node))
    /\ [][ (algorithm' # algorithm \/ start_node' # start_node \/ end_node' # end_node) =>
             result' = NoneResult ]_vars

\* After both clicks and the selection of Bellman-Ford, a run has stored a
\* result with a path from the selected start to the selected end.
C24_Witness ==
    /\ pc = "idle"
    /\ algorithm = "bellman_ford" /\ start_node = "B" /\ end_node = "A"
    /\ "path" \in DOMAIN result
    /\ result.algorithm = "Bellman-Ford"
    /\ Len(result.path) = 3

\* The phase names of the last call that are the names of no phase.
UnknownNames == gm_last.names \ DOMAIN phases

\* Every phase has a completion_percentage from 0 to 100, and a phase whose
\* status is COMPLETED has completion_percentage 100 and an end_date.
PhasesConsistent ==
    \A p \in DOMAIN phases :
        /\ phases[p].completion_percentage \in 0..100
        /\ phases[p].status = "COMPLETED" =>
              (phases[p].completion_percentage = 100 /\ phases[p].end_date # NoDate)

\* A call whose phase_name (to_phase for add_feedback) is no phase raises
\* ValueError and changes no phase; every other call returns.
TargetChecked ==
    /\ gm_last.outcome = "ValueError" => ~gm_last.changed
    /\ gm_last.op \in {"update_phase_status", "complete_quality_gate"} =>
          (gm_last.outcome = "ValueError" <=> UnknownNames # {})

\* C25 as claimed: after any sequence of update_phase_status, add_feedback
\* and complete_quality_gate calls, every phase has completion_percentage
\* between 0 and 100, every phase whose status is COMPLETED has
\* completion_percentage 100 and a set end_date, and a call that names a
\* phase that does not exist has raised ValueError and changed no phase.
C25_PhasesConsistent ==
    /\ PhasesConsistent
    /\ UnknownNames # {} => (gm_last.outcome = "ValueError" /\ ~gm_last.changed)

====
